---- MODULE Spec2Model ----
(***************************************************************************)
(* Hammer-net terrain sampling (Hammer_Net_Calculation_Gravimetry.py) and  *)
(* the Hammer-net diagram script (plot_pdf_hammer_net_2-17-53-170m.py).    *)
(*                                                                         *)
(* Lengths and coordinates are integers in tenths of a metre.  Elevations  *)
(* are whole metres; a reduced elevation difference (one decimal place) is *)
(* an integer number of tenths.                                            *)
(***************************************************************************)
EXTENDS Integers, Sequences, FiniteSets, TLC

VARIABLES
    group,              \* the "DEMs" layer-tree group: whether it is found, and its layers
    stations,           \* features of the active point layer: sequence of [Name, pt]
    saved,              \* TRUE when the QGIS project has a file name
    params,             \* module globals inner_radius, outer_radius, num_compartments
    fields,             \* points_lyr.fields(): sequence of column names
    attrs,              \* attrs[s][c]: attribute c of station s
    pc,                 \* position of the script
    fidx,               \* position of the loop over points_lyr.getFeatures()
    status,             \* per station: outcome of the loop body in the current run
    average_partition,  \* the local variable of process_rings
    rings_layer,        \* features of the memory layer built by the current run
    project,            \* ring layers added to the project
    csv,                \* the file written by export_attributes_to_csv in the current run
    history,            \* ring parameters and outcome of the runs made so far
    active,             \* iface.activeLayer(): "points", "rings", "raster" or NoLayer
    ring_args,          \* create_ring on its own: the arguments
    ring_result,        \* create_ring on its own: the polygons returned
    num_stations,       \* diagram script: len(data)
    page,               \* diagram script: loop variable page
    slot,               \* diagram script: loop variable i
    figure,             \* diagram script: diagrams drawn on the open figure
    pdf                 \* diagram script: pages saved so far

vars == <<group, stations, saved, params, fields, attrs, pc, fidx, status,
          average_partition, rings_layer, project, csv, history, active,
          ring_args, ring_result, num_stations, page, slot, figure, pdf>>

mainVars == <<group, stations, saved, params, fields, attrs, pc, fidx, status,
              average_partition, rings_layer, project, csv, history, active>>
ringVars == <<ring_args, ring_result>>
plotVars == <<num_stations, page, slot, figure, pdf>>

None == -1             \* Python None / NULL where a number is expected
Unbound == -2          \* a local variable that has not been assigned yet
NoLayer == "NoLayer"   \* Python None where a layer is expected

\* Bounds of the model.
MaxStations == 2       \* features in the active point layer
MaxRuns == 3           \* times the script is run on the same project
MaxSectors == 20       \* num_compartments tried on create_ring alone
MaxPlotStations == 14  \* rows of the table read by the diagram script

(***************************************************************************)
(* IEEE-754 binary64 arithmetic for the angles of create_ring.             *)
(* A non-negative double below 1024 is [i, h, l], standing for             *)
(* i + (h * 2^27 + l) / 2^54.  Every value create_ring meets (0, or at     *)
(* least 0.5) is a multiple of 2^-54.                                      *)
(***************************************************************************)
Two27 == 134217728

RECURSIVE Pow2(_)
Pow2(k) == IF k = 0 THEN 1 ELSE 2 * Pow2(k - 1)

RECURSIVE Log2(_)
Log2(i) == IF i <= 1 THEN 0 ELSE 1 + Log2(i \div 2)

\* Number of the 54 fraction bits a double of this magnitude cannot hold.
DroppedBits(i) == IF i = 0 THEN 1 ELSE Log2(i) + 2

\* Round to 53 significant bits, ties to even; sticky: bits below 2^-54 exist.
\* The operands are bound once, as the only elements of sets.
RoundDouble(i, h, l, sticky) ==
    CHOOSE d \in
        {LET low  == lv % m
             base == lv - low
             up   == \/ 2 * low > m
                     \/ 2 * low = m /\ st
                     \/ 2 * low = m /\ ~st /\ (lv \div m) % 2 = 1
             l1   == IF up THEN base + m ELSE base
             h1   == IF l1 >= Two27 THEN hv + 1 ELSE hv
         IN  [i |-> IF h1 >= Two27 THEN iv + 1 ELSE iv,
              h |-> h1 % Two27,
              l |-> l1 % Two27] :
            iv \in {i}, hv \in {h}, lv \in {l}, st \in {sticky},
            m \in {Pow2(DroppedBits(i))}} :
        TRUE

\* Long division: 9 more quotient bits of qr[2] / n, appended to qr[1];
\* <<quotient, remainder>>.
LongDiv9(qr, n) == <<qr[1] * 512 + (qr[2] * 512) \div n, (qr[2] * 512) % n>>

\* 27 more quotient bits of r / n for 0 <= r < n; <<quotient, remainder>>.
LongDiv(r, n) == LongDiv9(LongDiv9(LongDiv9(<<0, r>>, n), n), n)

\* The double a / n for integers a >= 0, n >= 1 with a / n >= 0.5 or a = 0.
FloatDiv(a, n) ==
    CHOOSE d \in
        {RoundDouble(a \div n, hi[1], lo[1], lo[2] # 0) :
            lo \in {LongDiv(first[2], n) : first \in {LongDiv(a % n, n)}},
            hi \in {LongDiv(a % n, n)}} :
        TRUE

\* The double x + y.
FloatAdd(x, y) ==
    CHOOSE d \in
        {LET l == xv.l + yv.l
             h == xv.h + yv.h + (l \div Two27)
         IN  RoundDouble(xv.i + yv.i + (h \div Two27), h % Two27, l % Two27, FALSE) :
            xv \in {x}, yv \in {y}} :
        TRUE

FloatOfInt(n) == [i |-> n, h |-> 0, l |-> 0]

\* int(x) for x >= 0.
IntOf(x) == x.i

\* range(a, b) with step 1.
Range(a, b) == [k \in 1..(b - a) |-> a + k - 1]

(***************************************************************************)
(* create_ring.  A vertex center + r * (cos a, sin a) is kept as <<r, a>>  *)
(* with a in whole degrees; a polygon is the record of its center and the  *)
(* vertex list outer_circle + inner_circle.                                *)
(*                                                                         *)
(* A value that is used many times is bound once as the only element of a  *)
(* set, {e(x) : x \in {v}}, and the result taken out with CHOOSE.          *)
(***************************************************************************)
\* Lines 95-116: the polygon over the given angles.
sector_polygon(center, inner_radius, outer_radius, angles) ==
    LET outer_circle == [k \in 1..Len(angles) |-> <<outer_radius, angles[k]>>]
        inner_circle == [k \in 1..Len(angles) |->
                            <<inner_radius, angles[Len(angles) + 1 - k]>>]
    IN  [center |-> center, ring |-> outer_circle \o inner_circle]

\* Lines 93-117: the loop, from sector i on.
RECURSIVE RingLoop(_, _, _, _, _, _, _)
RingLoop(i, init_angle, angle_per_compartment, center, inner_radius, outer_radius, num_compartments) ==
    IF i >= num_compartments THEN <<>>
    ELSE CHOOSE rings \in
            {<<sector_polygon(center, inner_radius, outer_radius, angles)>>
                \o RingLoop(i + 1, next, angle_per_compartment, center,
                            inner_radius, outer_radius, num_compartments) :
                next \in {FloatAdd(init_angle, angle_per_compartment)},
                angles \in {Range(IntOf(init_angle),
                                  IntOf(FloatAdd(init_angle, angle_per_compartment)) + 1)}} :
            TRUE

create_ring(center, inner_radius, outer_radius, num_compartments) ==
    CHOOSE rings \in
        {RingLoop(0, FloatOfInt(0), angle_per_compartment, center,
                  inner_radius, outer_radius, num_compartments) :
            angle_per_compartment \in {FloatDiv(360, num_compartments)}} :
        TRUE

\* The whole-degree angles where a sector polygon starts and ends.
StartAngle(poly) == poly.ring[1][2]
EndAngle(poly) == poly.ring[Len(poly.ring) \div 2][2]

(***************************************************************************)
(* QgsGeometry on the lattice.  A sector whose first and last angle are    *)
(* multiples of 90 degrees has its straight edges on the axes through the  *)
(* center, so for radii below 11.4 m and points with coordinates in whole  *)
(* tenths its bounding box and its point containment are exact in          *)
(* integers.  contains() is the GEOS predicate: a point on the boundary is *)
(* not contained.                                                          *)
(***************************************************************************)
Cos90(a) == CASE a % 360 = 0 -> 1 [] a % 360 = 180 -> -1 [] OTHER -> 0
Sin90(a) == CASE a % 360 = 90 -> 1 [] a % 360 = 270 -> -1 [] OTHER -> 0

OuterRadius(poly) == poly.ring[1][1]
InnerRadius(poly) == poly.ring[Len(poly.ring)][1]

SetMin(S) == CHOOSE m \in S : \A e \in S : m <= e
SetMax(S) == CHOOSE m \in S : \A e \in S : m >= e

\* ring.boundingBox()
boundingBox(poly) ==
    LET quarter == {a \in StartAngle(poly)..EndAngle(poly) : a % 90 = 0}
        radii   == {InnerRadius(poly), OuterRadius(poly)}
        xs      == {poly.center[1] + r * Cos90(a) : r \in radii, a \in quarter}
        ys      == {poly.center[2] + r * Sin90(a) : r \in radii, a \in quarter}
    IN  [xMinimum |-> SetMin(xs), xMaximum |-> SetMax(xs),
         yMinimum |-> SetMin(ys), yMaximum |-> SetMax(ys)]

\* Direction of (dx, dy) in steps of 45 degrees: even on an axis, odd strictly
\* inside a quadrant.
Octant(dx, dy) ==
    CASE dy = 0 /\ dx > 0 -> 0
      [] dy > 0 /\ dx > 0 -> 1
      [] dy > 0 /\ dx = 0 -> 2
      [] dy > 0 /\ dx < 0 -> 3
      [] dy = 0 /\ dx < 0 -> 4
      [] dy < 0 /\ dx < 0 -> 5
      [] dy < 0 /\ dx = 0 -> 6
      [] OTHER            -> 7

\* ring.contains(QgsGeometry.fromPointXY(point)).  The arcs are chords between
\* whole-degree vertices: a lattice point at the outer radius is outside or a
\* vertex, one at the inner radius is inside unless it is a vertex (on an axis).
contains(poly, point) ==
    LET dx  == point[1] - poly.center[1]
        dy  == point[2] - poly.center[2]
        d2  == dx * dx + dy * dy
        oct == Octant(dx, dy)
        rin == InnerRadius(poly)
        rout == OuterRadius(poly)
    IN  /\ d2 > 0
        /\ 2 * StartAngle(poly) < 90 * oct
        /\ 90 * oct < 2 * EndAngle(poly)
        /\ d2 < rout * rout
        /\ \/ d2 > rin * rin
           \/ d2 = rin * rin /\ oct % 2 = 1

\* QgsGeometry.fromRect(extent).contains(QgsGeometry.fromPointXY(point))
RectContains(extent, point) ==
    /\ extent.xMinimum < point[1] /\ point[1] < extent.xMaximum
    /\ extent.yMinimum < point[2] /\ point[2] < extent.yMaximum

(***************************************************************************)
(* The layers a project may hold in its "DEMs" group.  A and B are rasters *)
(* with 1 m pixels that overlap; V is a vector layer.                      *)
(***************************************************************************)
Layers == {"A", "B", "V"}

IsRaster(id) == id \in {"A", "B"}

Extent(id) ==
    IF id = "A" THEN [xMinimum |-> 1000, xMaximum |-> 1100, yMinimum |-> 1000, yMaximum |-> 1100]
                ELSE [xMinimum |-> 1050, xMaximum |-> 1150, yMinimum |-> 1000, yMaximum |-> 1100]

rasterUnitsPerPixelX(id) == 10
rasterUnitsPerPixelY(id) == 10

\* Pixels of A without data.
NoDataA == {<<2, 2>>, <<7, 3>>}

\* The band value of a pixel (column from the left, row from the top).
Band(id, col, row) ==
    IF id = "B" THEN 50
    ELSE IF <<col, row>> \in NoDataA THEN None
    ELSE 100 + ((3 * col + 7 * row) % 11)

\* provider.identify(point, IdentifyFormatValue): the value of the pixel that
\* holds the point, None outside the pixel grid.
Identify(id, point) ==
    LET e == Extent(id) IN
    IF /\ e.xMinimum <= point[1] /\ point[1] < e.xMaximum
       /\ e.yMinimum < point[2] /\ point[2] <= e.yMaximum
    THEN Band(id, (point[1] - e.xMinimum) \div rasterUnitsPerPixelX(id),
                  (e.yMaximum - point[2]) \div rasterUnitsPerPixelY(id))
    ELSE None

(***************************************************************************)
(* The functions of Hammer_Net_Calculation_Gravimetry.py.                  *)
(***************************************************************************)
\* get_DEMs('DEMs'): the raster layers of the group, in order.
get_DEMs(g) ==
    IF ~g.found THEN <<>> ELSE SelectSeq(g.children, LAMBDA id : IsRaster(id))

\* Variant: the last raster of the list that covers the point.
RECURSIVE get_DEM_point_last(_, _)
get_DEM_point_last(dems, point) ==
    IF dems = <<>> THEN NoLayer
    ELSE IF RectContains(Extent(dems[Len(dems)]), point) THEN dems[Len(dems)]
    ELSE get_DEM_point_last(SubSeq(dems, 1, Len(dems) - 1), point)

RECURSIVE get_DEM_point(_, _)
get_DEM_point(dems, point) ==
    IF dems = <<>> THEN NoLayer
    ELSE IF RectContains(Extent(Head(dems)), point) THEN Head(dems)
    ELSE get_DEM_point(Tail(dems), point)

get_height_dem(dem, point) == Identify(dem, point)

\* f"{x:.0f}" for x >= 0 given in tenths: nearest integer, an exact half to even.
Fmt0(x) ==
    LET q == x \div 10
        r == x % 10
    IN  IF r > 5 \/ (r = 5 /\ q % 2 = 1) THEN q + 1 ELSE q

\* f"{inner_radius:.0f}_{outer_radius:.0f}_{num_compartments}.{i+1}" as its four numbers.
column_name(inner_radius, outer_radius, num_compartments, i) ==
    <<Fmt0(inner_radius), Fmt0(outer_radius), num_compartments, i + 1>>

\* fields().indexFromName(name): 0-based position, -1 when absent.
indexFromName(flds, name) ==
    IF \E k \in 1..Len(flds) : flds[k] = name
    THEN (CHOOSE k \in 1..Len(flds) : flds[k] = name /\ \A j \in 1..(k - 1) : flds[j] # name) - 1
    ELSE -1

\* np.arange(start, stop, step) for step > 0.
arange(start, stop, step) ==
    LET n == IF stop > start THEN (stop - start + step - 1) \div step ELSE 0
    IN  [k \in 1..n |-> start + (k - 1) * step]

RECURSIVE SeqSum(_)
SeqSum(s) == IF s = <<>> THEN 0 ELSE Head(s) + SeqSum(Tail(s))

Abs(v) == IF v < 0 THEN -v ELSE v

\* The smallest j with a * 2^j >= n, for 0 < a < n.
RECURSIVE ShiftUp(_, _)
ShiftUp(a, n) == IF a >= n THEN 0 ELSE 1 + ShiftUp(2 * a, n)

\* The binary exponent of a / n for a, n >= 1: 2^e <= a / n < 2^(e + 1).
Exponent(a, n) == IF a >= n THEN Log2(a \div n) ELSE -ShiftUp(a, n)

\* (r * 2^k) % n.
RECURSIVE DoubleMod(_, _, _)
DoubleMod(r, n, k) == IF k = 0 THEN r % n ELSE DoubleMod((2 * r) % n, n, k - 1)

\* The sign of (the double total / count) - (the quotient total / count) for
\* total, count >= 1: the quotient is rounded to 53 significant bits, ties to
\* even.
DivisionError(total, count) ==
    CHOOSE d \in
        {IF rem = 0 THEN 0
         ELSE IF 2 * rem > count THEN 1
         ELSE IF 2 * rem < count THEN -1
         ELSE IF 2 * DoubleMod(total % count, count, k - 1) >= count THEN 1
         ELSE -1 :
            k \in {52 - Exponent(total, count)},
            rem \in {DoubleMod(total % count, count, 52 - Exponent(total, count))}} :
        TRUE

\* round(total / count, 1) in tenths.  round() takes the double total / count
\* and gives the tenth nearest to its binary value: a quotient halfway between
\* two tenths goes the way the division was rounded, and to the even tenth
\* when the division is exact.
Round1(total, count) ==
    CHOOSE t \in
        {IF 2 * r > count THEN q + 1
         ELSE IF 2 * r < count THEN q
         ELSE IF DivisionError(total, count) > 0 THEN q + 1
         ELSE IF DivisionError(total, count) < 0 THEN q
         ELSE IF q % 2 = 1 THEN q + 1 ELSE q :
            q \in {(10 * total) \div count},
            r \in {(10 * total) % count}} :
        TRUE

\* Variant: a pixel without data is not dropped.
values_dem_keep_nodata(ring, dem_selected, altura_point) ==
    LET extent == boundingBox(ring)
        sampled(p) == contains(ring, p)
    IN  CHOOSE values \in
            {[k \in 1..Len(kept) |->
                 Abs(get_height_dem(dem_selected, kept[k]) - altura_point)] :
                kept \in
                    {SelectSeq([k \in 1..(Len(xs) * Len(ys)) |->
                                   <<xs[((k - 1) \div Len(ys)) + 1],
                                     ys[((k - 1) % Len(ys)) + 1]>>], sampled) :
                        xs \in {arange(extent.xMinimum, extent.xMaximum,
                                       rasterUnitsPerPixelX(dem_selected))},
                        ys \in {arange(extent.yMinimum, extent.yMaximum,
                                       rasterUnitsPerPixelY(dem_selected))}}} :
            TRUE

\* Lines 212-222: values_dem of one sector, in the order of the two loops.
values_dem(ring, dem_selected, altura_point) ==
    LET extent == boundingBox(ring)
        sampled(p) == contains(ring, p) /\ get_height_dem(dem_selected, p) # None
    IN  CHOOSE values \in
            {[k \in 1..Len(kept) |->
                 Abs(get_height_dem(dem_selected, kept[k]) - altura_point)] :
                kept \in
                    {SelectSeq([k \in 1..(Len(xs) * Len(ys)) |->
                                   <<xs[((k - 1) \div Len(ys)) + 1],
                                     ys[((k - 1) % Len(ys)) + 1]>>], sampled) :
                        xs \in {arange(extent.xMinimum, extent.xMaximum,
                                       rasterUnitsPerPixelX(dem_selected))},
                        ys \in {arange(extent.yMinimum, extent.yMaximum,
                                       rasterUnitsPerPixelY(dem_selected))}}} :
            TRUE

\* Variant: the columns are added without looking for them first.
RECURSIVE create_columns_always(_, _, _)
create_columns_always(flds, p, i) ==
    IF i >= p.num_compartments THEN flds
    ELSE CHOOSE out \in
            {create_columns_always(Append(cur, name), p, i + 1) :
                cur \in {flds},
                name \in {column_name(p.inner_radius, p.outer_radius, p.num_compartments, i)}} :
            TRUE

\* Lines 181-189: create the columns that are missing, in sector order.
RECURSIVE create_columns(_, _, _)
create_columns(flds, p, i) ==
    IF i >= p.num_compartments THEN flds
    ELSE CHOOSE out \in
            {create_columns(IF indexFromName(cur, name) = -1 THEN Append(cur, name) ELSE cur,
                            p, i + 1) :
                cur \in {flds},
                name \in {column_name(p.inner_radius, p.outer_radius, p.num_compartments, i)}} :
            TRUE

\* Variant: average_partition is written whatever the sector holds.
d_Height_stale(values, average) == average

\* Line 242: the d_Height attribute of a sector feature.
d_Height(values, average) == IF values # <<>> THEN average ELSE None

\* Lines 224-244: what one sector with the given values_dem leaves behind.
\* acc carries average_partition, the station's attributes and the features
\* added to the rings layer.
sector_result(i, ring, values, feature, flds, acc) ==
    LET num_pixels == Len(values)
        average    == IF values # <<>> THEN Round1(SeqSum(values), Len(values))
                                       ELSE acc.average_partition
        idx        == indexFromName(flds, column_name(params.inner_radius,
                           params.outer_radius, params.num_compartments, i))
        ring_feature == [Name      |-> feature.Name,
                         Particion |-> i + 1,
                         d_Height  |-> d_Height(values, average),
                         n_pixels  |-> num_pixels,
                         geometry  |-> <<ring.center, StartAngle(ring), EndAngle(ring)>>]
    IN  [average_partition |-> average,
         attributes |-> IF values # <<>> /\ idx # -1
                        THEN [acc.attributes EXCEPT ![idx + 1] = average]
                        ELSE acc.attributes,
         features |-> Append(acc.features, ring_feature)]

\* Lines 206-244: the loop over the sectors of one station, from sector i on.
RECURSIVE sector_loop(_, _, _, _, _, _, _)
sector_loop(i, rings, feature, dem_selected, altura_point, flds, acc) ==
    IF i >= Len(rings) THEN acc
    ELSE CHOOSE out \in
            {sector_loop(i + 1, rings, feature, dem_selected, altura_point, flds, after) :
                after \in {sector_result(i, rings[i + 1], values, feature, flds, acc) :
                              values \in {values_dem(rings[i + 1], dem_selected, altura_point)}}} :
            TRUE

(***************************************************************************)
(* The projects the script is run on.                                      *)
(***************************************************************************)
NameCol == <<"Name">>
FidCol == <<"fid">>

Candidates ==
    { [Name |-> "S1", pt |-> <<1050, 1050>>],   \* inside A, on the edge of B
      [Name |-> "S2", pt |-> <<1060, 1050>>],   \* inside A and B
      [Name |-> "S3", pt |-> <<1025, 1075>>] }  \* outside B, inside A on a pixel without data

StationLists ==
    {q \in UNION {[1..n -> Candidates] : n \in 0..MaxStations} :
        \A j, k \in 1..Len(q) : j # k => q[j] # q[k]}

Groups ==
    {[found |-> FALSE, children |-> <<>>]} \cup
    {[found |-> TRUE, children |-> c] :
        c \in {<<"V">>, <<"A", "B">>, <<"B", "A">>, <<"V", "B">>}}

Ring(a, b, n) == [inner_radius |-> a, outer_radius |-> b, num_compartments |-> n]

\* Rings whose sectors end on the axes, and the three rings of the Hammer net
\* the diagram script expects.
AxisRings == {Ring(15, 30, 4), Ring(25, 30, 4), Ring(10, 35, 2)}
HammerInner == Ring(20, 166, 4)
HammerMiddle == Ring(166, 533, 6)
HammerOuter == Ring(533, 1701, 6)
HammerRings == {HammerInner, HammerMiddle, HammerOuter}

\* The station gets past lines 194-202 and its sectors are sampled.
Sampled(g, st) ==
    LET dem == get_DEM_point(get_DEMs(g), st.pt)
    IN  dem # NoLayer /\ get_height_dem(dem, st.pt) # None

\* The lattice geometry covers the axis rings only: they are run on the
\* projects where some sector is sampled, the Hammer rings on the others.
RingChoices(g, sts) ==
    IF \E k \in 1..Len(sts) : Sampled(g, sts[k]) THEN AxisRings ELSE HammerRings

Unprocessed == [state |-> "Unprocessed", dem |-> NoLayer, altura |-> None]

\* The attributes of a station before any ring column exists.
InitialAttributes(flds, sts, s) ==
    [k \in 1..Len(flds) |-> IF flds[k] = NameCol THEN sts[s].Name ELSE s]

NoFile == [written |-> FALSE, layer |-> NoLayer, header |-> <<>>, rows |-> <<>>]

\* The layers that may be active when the script is started: the point layer
\* the script asks for, a raster layer, or none.
ActiveLayers == {"points", "raster", NoLayer}

\* The fields of the rings layer (lines 177-178) and its attribute table.
RingsFields == <<NameCol, <<"Particion">>, <<"d_Height">>, <<"n_pixels">>>>
RingsAttributes(features) ==
    [k \in 1..Len(features) |->
        <<features[k].Name, features[k].Particion, features[k].d_Height,
          features[k].n_pixels>>]

\* The values of the variables of a script that is not run.
MainIdle ==
    /\ group = [found |-> FALSE, children |-> <<>>]
    /\ stations = <<>>
    /\ saved = FALSE
    /\ params = Ring(0, 0, 0)
    /\ fields = <<>>
    /\ attrs = <<>>
    /\ pc = "idle"
    /\ fidx = 0
    /\ status = <<>>
    /\ average_partition = Unbound
    /\ rings_layer = <<>>
    /\ project = <<>>
    /\ csv = NoFile
    /\ history = <<>>
    /\ active = NoLayer

RingIdle ==
    /\ ring_args = [center |-> <<0, 0>>, inner_radius |-> 0, outer_radius |-> 0,
                    num_compartments |-> 0]
    /\ ring_result = <<>>

PlotIdle ==
    /\ num_stations = 0
    /\ page = 0
    /\ slot = -1
    /\ figure = <<>>
    /\ pdf = <<>>

\* A layer that is not the point layer is not read: it has no stations and
\* no fields here.
Init ==
    /\ group \in Groups
    /\ active \in ActiveLayers
    /\ stations \in IF active = "points" THEN StationLists ELSE {<<>>}
    /\ saved \in BOOLEAN
    /\ params \in RingChoices(group, stations)
    /\ fields \in IF active = "points" THEN {<<NameCol>>, <<FidCol, NameCol>>} ELSE {<<>>}
    /\ attrs = [s \in 1..Len(stations) |-> InitialAttributes(fields, stations, s)]
    /\ pc = "process_rings"
    /\ fidx = 0
    /\ status = [s \in 1..Len(stations) |-> Unprocessed]
    /\ average_partition = Unbound
    /\ rings_layer = <<>>
    /\ project = <<>>
    /\ csv = NoFile
    /\ history = <<>>
    /\ RingIdle
    /\ PlotIdle

\* process_rings, lines 162-166: no raster in the group, return.
ProcessRingsNoDEM ==
    /\ pc = "process_rings"
    /\ get_DEMs(group) = <<>>
    /\ pc' = "export"
    /\ history' = Append(history, [ring |-> params, aborted |-> TRUE, crashed |-> FALSE])
    /\ UNCHANGED <<group, stations, saved, params, fields, attrs, fidx, status,
                   average_partition, rings_layer, project, csv, active>>
    /\ UNCHANGED <<ringVars, plotVars>>

\* process_rings, line 170, when points_lyr (line 253) is None or a raster
\* layer: startEditing is not an attribute of it, the AttributeError ends the
\* script and line 257 is not reached.
ProcessRingsError ==
    /\ pc = "process_rings"
    /\ get_DEMs(group) # <<>>
    /\ active # "points"
    /\ pc' = "end"
    /\ history' = Append(history, [ring |-> params, aborted |-> FALSE, crashed |-> TRUE])
    /\ UNCHANGED <<group, stations, saved, params, fields, attrs, fidx, status,
                   average_partition, rings_layer, project, csv, active>>
    /\ UNCHANGED <<ringVars, plotVars>>

\* process_rings, lines 162-189: the rings layer and the columns.
ProcessRingsBegin ==
    /\ pc = "process_rings"
    /\ get_DEMs(group) # <<>>
    /\ active = "points"
    /\ rings_layer' = <<>>
    /\ fields' = create_columns(fields, params, 0)
    /\ attrs' = [s \in 1..Len(stations) |->
                    attrs[s] \o [k \in 1..(Len(fields') - Len(fields)) |-> None]]
    /\ average_partition' = Unbound
    /\ status' = [s \in 1..Len(stations) |-> Unprocessed]
    /\ fidx' = 1
    /\ pc' = "loop"
    /\ history' = Append(history, [ring |-> params, aborted |-> FALSE, crashed |-> FALSE])
    /\ UNCHANGED <<group, stations, saved, params, project, csv, active>>
    /\ UNCHANGED <<ringVars, plotVars>>

\* Variant: the station is reported and process_rings returns.
skip_station_return(dem_selected) ==
    /\ status' = [status EXCEPT ![fidx] =
            [state |-> "Skipped", dem |-> dem_selected, altura |-> None]]
    /\ fidx' = fidx
    /\ pc' = "export"
    /\ UNCHANGED <<attrs, average_partition, rings_layer>>

\* Lines 195-197 and 200-202: report the station and continue with the next one.
skip_station(dem_selected) ==
    /\ status' = [status EXCEPT ![fidx] =
            [state |-> "Skipped", dem |-> dem_selected, altura |-> None]]
    /\ fidx' = fidx + 1
    /\ pc' = "loop"
    /\ UNCHANGED <<attrs, average_partition, rings_layer>>

\* process_rings, lines 191-244: the loop body for one station.
ProcessStation ==
    /\ pc = "loop"
    /\ fidx <= Len(stations)
    /\ LET feature      == stations[fidx]
           center       == feature.pt
           dem_selected == get_DEM_point(get_DEMs(group), center)
           altura_point == get_height_dem(dem_selected, center)
       IN  IF dem_selected = NoLayer THEN skip_station(NoLayer)
           ELSE IF altura_point = None THEN skip_station(dem_selected)
           ELSE \E rings \in {create_ring(center, params.inner_radius,
                                           params.outer_radius, params.num_compartments)} :
                \E done \in {sector_loop(0, rings, feature, dem_selected, altura_point, fields,
                                 [average_partition |-> average_partition,
                                  attributes |-> attrs[fidx],
                                  features |-> rings_layer])} :
                    /\ status' = [status EXCEPT ![fidx] =
                            [state |-> "Done", dem |-> dem_selected, altura |-> altura_point]]
                    /\ attrs' = [attrs EXCEPT ![fidx] = done.attributes]
                    /\ average_partition' = done.average_partition
                    /\ rings_layer' = done.features
                    /\ fidx' = fidx + 1
                    /\ pc' = "loop"
    /\ UNCHANGED <<group, stations, saved, params, fields, project, csv, history, active>>
    /\ UNCHANGED <<ringVars, plotVars>>

\* process_rings, lines 246-249: commit and add the rings layer to the project.
\* QGIS may make the layer it adds the active one, or leave the point layer
\* active.
ProcessRingsEnd ==
    /\ pc = "loop"
    /\ fidx > Len(stations)
    /\ project' = Append(project,
            [name |-> <<"Rings", Fmt0(params.inner_radius), Fmt0(params.outer_radius)>>,
             features |-> rings_layer])
    /\ active' \in {active, "rings"}
    /\ pc' = "export"
    /\ UNCHANGED <<group, stations, saved, params, fields, attrs, fidx, status,
                   average_partition, rings_layer, csv, history>>
    /\ UNCHANGED <<ringVars, plotVars>>

\* export_attributes_to_csv, called on line 257 whatever process_rings did:
\* the table of the layer that is active on line 123 is written, unless there
\* is none (126-128), it is no vector layer (131-133) or the project has no
\* file name (137-139).
export_attributes_to_csv ==
    /\ pc = "export"
    /\ csv' = IF active = NoLayer \/ active = "raster" \/ ~saved THEN csv
              ELSE IF active = "rings"
                   THEN [written |-> TRUE, layer |-> "rings", header |-> RingsFields,
                         rows |-> RingsAttributes(rings_layer)]
                   ELSE [written |-> TRUE, layer |-> "points", header |-> fields,
                         rows |-> attrs]
    /\ pc' = "end"
    /\ UNCHANGED <<group, stations, saved, params, fields, attrs, fidx, status,
                   average_partition, rings_layer, project, history, active>>
    /\ UNCHANGED <<ringVars, plotVars>>

\* The user edits lines 46-48, makes the point layer active again if the
\* rings layer has become the active one (lines 26-29), and runs the script
\* again on the same project.  csv starts over: it is what this run writes.
RunScript ==
    /\ pc = "end"
    /\ Len(history) < MaxRuns
    /\ params' \in RingChoices(group, stations)
    /\ active' = IF active = "rings" THEN "points" ELSE active
    /\ csv' = NoFile
    /\ pc' = "process_rings"
    /\ UNCHANGED <<group, stations, saved, fields, attrs, fidx, status,
                   average_partition, rings_layer, project, history>>
    /\ UNCHANGED <<ringVars, plotVars>>

Next ==
    \/ ProcessRingsNoDEM
    \/ ProcessRingsError
    \/ ProcessRingsBegin
    \/ ProcessStation
    \/ ProcessRingsEnd
    \/ export_attributes_to_csv
    \/ RunScript

Spec == Init /\ [][Next]_vars

\* One run of the script: the interpreter goes on to the end of the script
\* once it is started, and nothing makes the user run it again.
ScriptStep ==
    \/ ProcessRingsNoDEM
    \/ ProcessRingsError
    \/ ProcessRingsBegin
    \/ ProcessStation
    \/ ProcessRingsEnd
    \/ export_attributes_to_csv

FairSpec == Init /\ [][ScriptStep]_vars /\ WF_vars(ScriptStep)

(***************************************************************************)
(* create_ring on its own.                                                 *)
(***************************************************************************)
RingRadii == {<<10, 30>>, <<20, 166>>, <<533, 1701>>}

RingInit ==
    /\ ring_args \in [center : {<<1050, 1050>>},
                       inner_radius : {r[1] : r \in RingRadii},
                       outer_radius : {r[2] : r \in RingRadii},
                       num_compartments : 1..MaxSectors]
    /\ <<ring_args.inner_radius, ring_args.outer_radius>> \in RingRadii
    /\ ring_result = <<>>
    /\ MainIdle
    /\ PlotIdle

BuildRing ==
    /\ ring_result = <<>>
    /\ ring_result' = create_ring(ring_args.center, ring_args.inner_radius,
                                  ring_args.outer_radius, ring_args.num_compartments)
    /\ UNCHANGED <<ring_args, mainVars, plotVars>>

RingNext == BuildRing

RingSpec == RingInit /\ [][RingNext]_vars

(***************************************************************************)
(* plot_pdf_hammer_net_2-17-53-170m.py.  slot is -1 between two figures.   *)
(***************************************************************************)
stations_per_page == 6

\* Variant: the page of the remaining stations is not counted.
page_count_floor(n) == n \div stations_per_page

page_count(n) ==
    (n \div stations_per_page) + (IF n % stations_per_page # 0 THEN 1 ELSE 0)

\* Lines 81-84: the slices of one row of the table.
station_name(row) == row[1]
values_inner(row) == SubSeq(row, 2, 5)
values_mid(row) == SubSeq(row, 6, 11)
values_outer(row) == SubSeq(row, 12, 17)

PlotInit ==
    /\ num_stations \in 0..MaxPlotStations
    /\ page = 0
    /\ slot = -1
    /\ figure = <<>>
    /\ pdf = <<>>
    /\ MainIdle
    /\ RingIdle

\* Lines 73-74: the next page.
NewFigure ==
    /\ slot = -1
    /\ page < page_count(num_stations)
    /\ figure' = <<>>
    /\ slot' = 0
    /\ UNCHANGED <<num_stations, page, pdf, mainVars, ringVars>>

\* Lines 76-103: one diagram.
DrawStation ==
    /\ slot >= 0
    /\ slot < stations_per_page
    /\ LET idx == page * stations_per_page + slot
       IN  /\ idx < num_stations
           /\ figure' = Append(figure, [idx |-> idx, page |-> page, subplot |-> slot + 1])
    /\ slot' = slot + 1
    /\ UNCHANGED <<num_stations, page, pdf, mainVars, ringVars>>

\* Lines 78-79 and 105-110: leave the inner loop, save the figure as a page.
SavePage ==
    /\ slot >= 0
    /\ slot = stations_per_page \/ page * stations_per_page + slot >= num_stations
    /\ pdf' = Append(pdf, figure)
    /\ page' = page + 1
    /\ slot' = -1
    /\ UNCHANGED <<num_stations, figure, mainVars, ringVars>>

PlotNext == NewFigure \/ DrawStation \/ SavePage

PlotSpec == PlotInit /\ [][PlotNext]_vars

(***************************************************************************)
(* Properties.                                                             *)
(***************************************************************************)
\* The current run got past the check of the "DEMs" group.
RunStarted ==
    Len(history) > 0 /\ ~history[Len(history)].aborted /\ ~history[Len(history)].crashed
RunAborted == Len(history) > 0 /\ history[Len(history)].aborted

\* The rings applied so far, each at its first application.
FirstApplied ==
    LET first == {k \in 1..Len(history) :
                    /\ ~history[k].aborted
                    /\ ~history[k].crashed
                    /\ \A j \in 1..(k - 1) : history[j].ring # history[k].ring}
        nth(n) == CHOOSE k \in first : Cardinality({j \in first : j < k}) = n - 1
    IN  [n \in 1..Cardinality(first) |-> history[nth(n)].ring]

\* The polygons of station s in the current run.
SectorPolygons(s) ==
    create_ring(stations[s].pt, params.inner_radius, params.outer_radius,
                params.num_compartments)

\* The points of the half-open grid over the bounding box of a polygon that
\* lie inside the polygon and have an elevation.
Surviving(poly, dem) ==
    LET e  == boundingBox(poly)
        dx == rasterUnitsPerPixelX(dem)
        dy == rasterUnitsPerPixelY(dem)
        grid == {<<e.xMinimum + a * dx, e.yMinimum + b * dy>> :
                    a \in 0..((e.xMaximum - e.xMinimum - 1) \div dx),
                    b \in 0..((e.yMaximum - e.yMinimum - 1) \div dy)}
    IN  {pt \in grid : contains(poly, pt) /\ Identify(dem, pt) # None}

\* The loop has just processed a station (the features recorded for the
\* stations before it are not touched again).
JustProcessed == pc = "loop" /\ fidx >= 2 /\ status[fidx - 1].state = "Done"

RECURSIVE SumOver(_, _, _)
SumOver(S, dem, ref) ==
    IF S = {} THEN 0
    ELSE LET pt == CHOOSE q \in S : TRUE
         IN  Abs(Identify(dem, pt) - ref) + SumOver(S \ {pt}, dem, ref)

\* The features the current run has recorded for sector i of station s.
FeaturesOf(s, i) ==
    {k \in 1..Len(rings_layer) :
        rings_layer[k].Name = stations[s].Name /\ rings_layer[k].Particion = i}

\* C1: for every sector count N >= 1 create_ring returns N polygons, the first
\* starting at 0 degrees, each with a positive angular span, each ending where
\* the next starts, the last ending at 360 degrees.
C1_RingPartitionsCircle ==
    ring_result # <<>> =>
        /\ Len(ring_result) = ring_args.num_compartments
        /\ StartAngle(ring_result[1]) = 0
        /\ \A i \in 1..Len(ring_result) :
               StartAngle(ring_result[i]) < EndAngle(ring_result[i])
        /\ \A i \in 1..(Len(ring_result) - 1) :
               EndAngle(ring_result[i]) = StartAngle(ring_result[i + 1])
        /\ EndAngle(ring_result[Len(ring_result)]) = 360

\* The first raster of the list whose extent holds the point under the given
\* containment test, NoLayer when there is none.
FirstHolding(dems, point, Holds(_, _)) ==
    LET hits == {k \in 1..Len(dems) : Holds(Extent(dems[k]), point)}
    IN  IF hits = {} THEN NoLayer ELSE dems[SetMin(hits)]

ClosedRect(extent, point) ==
    /\ extent.xMinimum <= point[1] /\ point[1] <= extent.xMaximum
    /\ extent.yMinimum <= point[2] /\ point[2] <= extent.yMaximum

OpenRect(extent, point) ==
    /\ extent.xMinimum < point[1] /\ point[1] < extent.xMaximum
    /\ extent.yMinimum < point[2] /\ point[2] < extent.yMaximum

\* C2 as stated: the surface selected for a station is the first one of the
\* list whose closed extent (boundary included) contains the station, none
\* when no closed extent contains it.
C2_FirstClosedExtent ==
    \A s \in 1..Len(stations) :
        status[s].state # "Unprocessed" =>
            status[s].dem = FirstHolding(get_DEMs(group), stations[s].pt, ClosedRect)

\* C2 amended: the surface selected for a station is the first one of the
\* list whose extent contains the station in its interior, none when no
\* extent does; of two overlapping surfaces [A, B] that both do, A.
C2_FirstInteriorExtent ==
    \A s \in 1..Len(stations) :
        status[s].state # "Unprocessed" =>
            status[s].dem = FirstHolding(get_DEMs(group), stations[s].pt, OpenRect)

\* A station inside both rasters was given the first of the list.
C2_Witness ==
    \E s \in 1..Len(stations) :
        /\ status[s].state = "Done"
        /\ Len(get_DEMs(group)) = 2
        /\ \A k \in 1..2 : OpenRect(Extent(get_DEMs(group)[k]), stations[s].pt)
        /\ status[s].dem = get_DEMs(group)[1]

\* C3: a sector with surviving samples is recorded with n_pixels equal to the
\* number of points of the half-open grid over its bounding box that are
\* inside the polygon and have an elevation, and with d_Height equal to the
\* mean of |elevation - reference| over those points rounded to one decimal.
C3_SamplesAndMean ==
    JustProcessed =>
        \A rings \in {SectorPolygons(fidx - 1)} :
        \A i \in 1..Len(rings) :
        \A kept \in {Surviving(rings[i], status[fidx - 1].dem)} :
            LET n   == Cardinality(kept)
                tot == SumOver(kept, status[fidx - 1].dem, status[fidx - 1].altura)
            IN  n > 0 =>
                    /\ Cardinality(FeaturesOf(fidx - 1, i)) = 1
                    /\ \A k \in FeaturesOf(fidx - 1, i) :
                          /\ rings_layer[k].n_pixels = n
                          /\ rings_layer[k].d_Height >= 0
                          /\ 2 * Abs(10 * tot - rings_layer[k].d_Height * n) <= n

\* A recorded sector with several samples, a mean that is not a whole number
\* of tenths, and a point inside the polygon that was dropped for NoData.
C3_Witness ==
    /\ JustProcessed
    /\ \E rings \in {SectorPolygons(fidx - 1)} :
       \E i \in 1..Len(rings) :
       \E k \in FeaturesOf(fidx - 1, i) :
          /\ rings_layer[k].n_pixels >= 2
          /\ rings_layer[k].d_Height % 10 # 0
          /\ \E a, b \in 1..3 :
                LET pt == <<stations[fidx - 1].pt[1] + 10 * a,
                            stations[fidx - 1].pt[2] + 10 * b>>
                IN  contains(rings[i], pt) /\ Identify(status[fidx - 1].dem, pt) = None

\* C4: every sector of a processed station without surviving samples is
\* recorded once, with d_Height unset and n_pixels = 0, whatever was computed
\* for the sectors before it.
C4_EmptySectorUndefined ==
    JustProcessed =>
        \A rings \in {SectorPolygons(fidx - 1)} :
        \A i \in 1..Len(rings) :
            Surviving(rings[i], status[fidx - 1].dem) = {} =>
                /\ Cardinality(FeaturesOf(fidx - 1, i)) = 1
                /\ \A k \in FeaturesOf(fidx - 1, i) :
                      /\ rings_layer[k].d_Height = None
                      /\ rings_layer[k].n_pixels = 0

\* The first sector of the first station is empty, and a later empty sector
\* follows a sector that has a value.
C4_Witness ==
    /\ pc = "loop"
    /\ Len(rings_layer) >= 3
    /\ rings_layer[1].n_pixels = 0
    /\ rings_layer[1].d_Height = None
    /\ \E j, k \in 1..Len(rings_layer) :
          /\ j < k
          /\ rings_layer[j].n_pixels > 0
          /\ rings_layer[k].n_pixels = 0
          /\ rings_layer[k].d_Height = None

\* A station has no covering raster or no elevation of its own.
Unusable(s) ==
    \/ \A k \in 1..Len(get_DEMs(group)) :
          ~OpenRect(Extent(get_DEMs(group)[k]), stations[s].pt)
    \/ Identify(FirstHolding(get_DEMs(group), stations[s].pt, OpenRect),
                stations[s].pt) = None

C5_Terminal ==
    (RunStarted /\ pc \in {"export", "end"}) =>
        \A s \in 1..Len(stations) :
            /\ status[s].state \in {"Done", "Skipped"}
            /\ status[s].state = "Skipped" <=> Unusable(s)
            /\ status[s].state = "Skipped" =>
                  \A k \in 1..Len(rings_layer) : rings_layer[k].Name # stations[s].Name
            /\ status[s].state = "Done" =>
                  \A i \in 1..params.num_compartments : FeaturesOf(s, i) # {}

\* C5: the loop over the stations always reaches the end of the list, and
\* then every station is Done or Skipped: Skipped, with no sector recorded,
\* exactly when it has no covering surface or no reference elevation, Done
\* with all its sectors otherwise, also after a skipped station.
C5_EveryStationTerminal ==
    /\ [](C5_Terminal)
    /\ (pc = "loop") ~> (pc = "export")

\* A run has ended in which a skipped station is followed by a processed one.
C5_Witness ==
    /\ RunStarted
    /\ pc = "end"
    /\ Len(stations) = 2
    /\ status[1].state = "Skipped"
    /\ status[2].state = "Done"

\* C6: when the "DEMs" group is missing or holds no raster, the script leaves
\* no output: no column is added, no layer is added, no CSV file is written.
C6_NoPartialOutput ==
    RunAborted =>
        /\ \A k \in 1..Len(fields) : fields[k] \in {NameCol, FidCol}
        /\ project = <<>>
        /\ ~csv.written

\* C7: after a run, the column of sector i of a processed station holds the
\* reduced value of the sector when it has surviving samples and is unset when
\* it has none, also when the column held a value before the run.
C7_ColumnHoldsResult ==
    (RunStarted /\ pc \in {"export", "end"}) =>
        \A s \in 1..Len(stations) :
            status[s].state = "Done" =>
                \A i \in 1..params.num_compartments :
                    \A k \in FeaturesOf(s, i) :
                        attrs[s][indexFromName(fields,
                            column_name(params.inner_radius, params.outer_radius,
                                        params.num_compartments, i - 1)) + 1]
                          = rings_layer[k].d_Height

\* The columns of the station layer that belong to a ring: four-part names
\* with the radii rounded to whole metres and the sector count of the ring.
RingColumns(p) ==
    {k \in 1..Len(fields) :
        /\ Len(fields[k]) = 4
        /\ 2 * Abs(10 * fields[k][1] - p.inner_radius) <= 10
        /\ 2 * Abs(10 * fields[k][2] - p.outer_radius) <= 10
        /\ fields[k][3] = p.num_compartments}

\* C8: once a ring is applied the station layer has exactly N columns for it,
\* numbered 1..N in increasing order ('53_170_6.1' .. '53_170_6.6' for the
\* outer Hammer ring), also when the same ring had been applied before.
C8_ExactlyNColumns ==
    (RunStarted /\ pc \in {"loop", "export", "end"}) =>
        /\ Cardinality(RingColumns(params)) = params.num_compartments
        /\ \A i \in 1..params.num_compartments :
              \E k \in RingColumns(params) :
                  /\ fields[k][4] = i
                  /\ Cardinality({j \in RingColumns(params) : j < k}) = i - 1
        /\ params = HammerOuter =>
              \A i \in 1..6 : \E k \in RingColumns(params) : fields[k] = <<53, 170, 6, i>>

\* The outer Hammer ring has been applied twice.
C8_Witness ==
    /\ pc = "end"
    /\ Len(history) = 2
    /\ \A k \in 1..2 : history[k] = [ring |-> HammerOuter, aborted |-> FALSE, crashed |-> FALSE]
    /\ Cardinality(RingColumns(HammerOuter)) = 6

PlotDone == slot = -1 /\ page >= page_count(num_stations)

\* C9: the diagram script saves ceil(n / 6) pages and draws station idx once,
\* in input order, on page floor(idx / 6) in slot idx mod 6; every page but the
\* last holds 6 diagrams and the last holds the rest.
C9_Pagination ==
    PlotDone =>
        /\ 6 * Len(pdf) >= num_stations
        /\ 6 * Len(pdf) < num_stations + 6
        /\ \A q \in 1..Len(pdf) :
              /\ Len(pdf[q]) = IF q < Len(pdf) THEN 6 ELSE num_stations - 6 * (q - 1)
              /\ \A j \in 1..Len(pdf[q]) :
                    /\ pdf[q][j].idx = 6 * (q - 1) + (j - 1)
                    /\ pdf[q][j].page = pdf[q][j].idx \div 6
                    /\ pdf[q][j].subplot = (pdf[q][j].idx % 6) + 1

\* 13 stations were drawn on 3 pages of 6, 6 and 1 diagrams.
C9_Witness ==
    /\ PlotDone
    /\ num_stations = 13
    /\ Len(pdf) = 3
    /\ <<Len(pdf[1]), Len(pdf[2]), Len(pdf[3])>> = <<6, 6, 1>>

HammerNames(p) ==
    [i \in 1..p.num_compartments |->
        <<Fmt0(p.inner_radius), Fmt0(p.outer_radius), p.num_compartments, i>>]

\* The table has one row per station, the station name first, then the 4, 6
\* and 6 columns of the inner, middle and outer ring where the diagram script
\* slices them.
HammerLayout ==
    /\ Len(csv.rows) = Len(stations)
    /\ Len(csv.header) >= 17
    /\ station_name(csv.header) = NameCol
    /\ values_inner(csv.header) = HammerNames(HammerInner)
    /\ values_mid(csv.header) = HammerNames(HammerMiddle)
    /\ values_outer(csv.header) = HammerNames(HammerOuter)
    /\ \A s \in 1..Len(stations) : station_name(csv.rows[s]) = stations[s].Name

\* A run on a saved project has ended, the station layer started with the
\* station name as its first column, and the three Hammer rings were first
\* applied in the order inner, middle, outer.
AllHammerApplied ==
    /\ pc = "end"
    /\ RunStarted
    /\ saved
    /\ fields[1] = NameCol
    /\ FirstApplied = <<HammerInner, HammerMiddle, HammerOuter>>

\* C10: after the three Hammer rings have been applied to the station layer,
\* in the order the claim lists them and with the station name as the first
\* column, the table the script exports has one row per station, column 0 =
\* station name, columns 1..4 = inner ring, 5..10 = middle ring, 11..16 =
\* outer ring.
C10_Layout ==
    AllHammerApplied => (csv.written /\ csv.layer = "points" /\ HammerLayout)

====
